---------------------------- MODULE Spec2Model ----------------------------
(***************************************************************************)
(* Survey ETL (bronze -> silver -> gold): a model of                        *)
(*   airflow/dags/dag_etl_survey.py            (bucket identifier, wrapper) *)
(*   airflow/dags/tasks/transformacao_survey.py      (normalizer, silver)   *)
(*   airflow/dags/tasks/transformacao_gold_survey.py (metrics, gold, db)    *)
(*                                                                         *)
(* Text is modelled as a sequence of one-character strings, so that         *)
(* trimming, lower-casing, splitting and pattern matching are computed.     *)
(***************************************************************************)
EXTENDS Integers, Sequences, FiniteSets, TLC

VARIABLES
    bIn,      \* _extract_bucket_name: the argument `value`
    bOut,     \* _extract_bucket_name: what the call produced
    bpc,      \* _extract_bucket_name: "call" before, "done" after
    tIn,      \* transform_survey_df: the raw table df
    tOut,     \* transform_survey_df: the table it returned, or what it raised
    tpc,      \* transform_survey_df: "call" before, "done" after, "again" after a second pass
    tPrev,    \* transform_survey_df: the table of the pass before the last
    gIn,      \* calcular_metricas: the silver table df
    gOut,     \* calcular_metricas: resultados
    gPrev,    \* calcular_metricas: resultados of the same rows in the order before
    gpc,      \* calcular_metricas: "call" before, "done" after, then "recall" and "redone"
    now,      \* the UTC clock, in seconds (datetime.utcnow())
    buckets,  \* object store: the buckets that exist
    bronze,   \* object store: the keys under raw/survey/
    silver,   \* object store: token of each silver/survey/data_silver_<token>.parquet -> object
    gold,     \* object store: [name, ts] of each gold/survey/<name>_<ts>.<ext> -> object
    db,       \* relational store: whether metrics_summary / metrics_details hold rows
    run,      \* the run in progress: its position and its locals
    nruns     \* runs started so far

bucketVars == <<bIn, bOut, bpc>>
transformVars == <<tIn, tOut, tpc, tPrev>>
metricVars == <<gIn, gOut, gPrev, gpc>>
storeVars == <<buckets, bronze, silver, gold, db>>
pipelineVars == <<buckets, bronze, silver, gold, db, run, nruns>>
vars == <<bIn, bOut, bpc, tIn, tOut, tpc, tPrev, gIn, gOut, gPrev, gpc, now, buckets, bronze, silver, gold, db, run, nruns>>

(***************************************************************************)
(* Text helpers                                                            *)
(***************************************************************************)
LF == "\n"

RECURSIVE SeqsUpTo(_, _)
\* every sequence over alphabet A of length 0..n
SeqsUpTo(A, n) ==
    IF n = 0 THEN {<<>>}
    ELSE LET shorter == SeqsUpTo(A, n - 1)
         IN  shorter \cup {Append(s, c) : s \in shorter, c \in A}

Repeat(c, n) == [i \in 1..n |-> c]

\* str.startswith
StartsWith(s, p) == Len(s) >= Len(p) /\ SubSeq(s, 1, Len(p)) = p

\* the positions of s that hold one of the characters cs
Positions(s, cs) == {i \in 1..Len(s) : s[i] \in cs}

Min(S) == CHOOSE x \in S : \A y \in S : x <= y
Max(S) == CHOOSE x \in S : \A y \in S : x >= y

\* s up to (not including) the first character of cs, all of s if there is none
UpToFirst(s, cs) ==
    IF Positions(s, cs) = {} THEN s
    ELSE SubSeq(s, 1, Min(Positions(s, cs)) - 1)

\* s without the characters of cs
RECURSIVE Without(_, _)
Without(s, cs) ==
    IF s = <<>> THEN <<>>
    ELSE IF Head(s) \in cs THEN Without(Tail(s), cs)
    ELSE <<Head(s)>> \o Without(Tail(s), cs)

LowerAlphabet ==
    <<"a", "b", "c", "d", "e", "f", "g", "h", "i", "j", "k", "l", "m",
      "n", "o", "p", "q", "r", "s", "t", "u", "v", "w", "x", "y", "z", "ã">>
UpperAlphabet ==
    <<"A", "B", "C", "D", "E", "F", "G", "H", "I", "J", "K", "L", "M",
      "N", "O", "P", "Q", "R", "S", "T", "U", "V", "W", "X", "Y", "Z", "Ã">>

IndexIn(alphabet, c) == CHOOSE i \in 1..Len(alphabet) : alphabet[i] = c
InAlphabet(alphabet, c) == \E i \in 1..Len(alphabet) : alphabet[i] = c

DigitSeq == <<"0", "1", "2", "3", "4", "5", "6", "7", "8", "9">>

(***************************************************************************)
(* dag_etl_survey.py: _extract_bucket_name                                 *)
(***************************************************************************)
\* the character class [a-zA-Z0-9.\-_] of the pattern
BucketChars ==
    {LowerAlphabet[i] : i \in 1..26} \cup {UpperAlphabet[i] : i \in 1..26}
    \cup {DigitSeq[i] : i \in 1..10} \cup {".", "-", "_"}

\* {1,255} of the pattern
MaxBucketLen == 255

S3Scheme == <<"s", "3", ":", "/", "/">>

\* re.match(r'^[a-zA-Z0-9.\-_]{1,255}$', bucket): in Python, $ matches at the
\* end of the text and also just before a line feed that ends the text.
BucketPatternMatches(bucket) ==
    \E n \in 1..MaxBucketLen :
        /\ n <= Len(bucket)
        /\ \A i \in 1..n : bucket[i] \in BucketChars
        /\ \/ n = Len(bucket)
           \/ n = Len(bucket) - 1 /\ bucket[Len(bucket)] = LF

\* urlparse(value).netloc for a value that starts with s3://: urlsplit drops
\* tab, carriage return and line feed from the URL, then the network location
\* runs from after the // to the first of / ? #
UrlNetloc(value) ==
    LET clean == Without(value, {LF, "\t", "\r"})
        rest  == SubSeq(clean, Len(S3Scheme) + 1, Len(clean))
    IN  UpToFirst(rest, {"/", "?", "#"})

\* value.split("/", 1)[0]
SplitFirst(value) == UpToFirst(value, {"/"})

Raised(e) == [ok |-> FALSE, val |-> <<>>, err |-> e]
Returned(v) == [ok |-> TRUE, val |-> v, err |-> "none"]

\* the bucket the code extracts before it validates it
ExtractedBucket(value) ==
    IF StartsWith(value, S3Scheme) THEN UrlNetloc(value) ELSE SplitFirst(value)

_extract_bucket_name(value) ==
    IF value = <<>> THEN Raised("ValueError")
    ELSE IF ~BucketPatternMatches(ExtractedBucket(value)) THEN Raised("ValueError")
    ELSE Returned(ExtractedBucket(value))

(***************************************************************************)
(* Cell values of a DataFrame                                              *)
(*   None and NaN are the two missing values (pd.isna is true of both);    *)
(*   a number is n + f/10 with f in 0..9 (an int has f = 0 and t = "int"); *)
(*   inf is the float infinity.                                            *)
(***************************************************************************)
None == [t |-> "None", s |-> <<>>, n |-> 0, f |-> 0]
NaN == [t |-> "NaN", s |-> <<>>, n |-> 0, f |-> 0]
Inf == [t |-> "inf", s |-> <<>>, n |-> 0, f |-> 0]
Str(chars) == [t |-> "str", s |-> chars, n |-> 0, f |-> 0]
IntVal(i) == [t |-> "int", s |-> <<>>, n |-> i, f |-> 0]
FloatVal(i, tenth) == [t |-> "float", s |-> <<>>, n |-> i, f |-> tenth]

\* pd.isna
IsNa(v) == v.t \in {"None", "NaN"}

LowerChar(c) ==
    IF InAlphabet(UpperAlphabet, c) THEN LowerAlphabet[IndexIn(UpperAlphabet, c)] ELSE c
UpperChar(c) ==
    IF InAlphabet(LowerAlphabet, c) THEN UpperAlphabet[IndexIn(LowerAlphabet, c)] ELSE c

\* str.lower, str.upper, str.capitalize
Lower(s) == [i \in 1..Len(s) |-> LowerChar(s[i])]
Upper(s) == [i \in 1..Len(s) |-> UpperChar(s[i])]
Capitalize(s) == [i \in 1..Len(s) |-> IF i = 1 THEN UpperChar(s[i]) ELSE LowerChar(s[i])]

Whitespace == {" ", "\t", LF, "\r"}

\* str.strip
Strip(s) ==
    LET keep == {i \in 1..Len(s) : s[i] \notin Whitespace}
    IN  IF keep = {} THEN <<>> ELSE SubSeq(s, Min(keep), Max(keep))

DigitChar(d) == DigitSeq[d + 1]
DigitValue(c) == IndexIn(DigitSeq, c) - 1
IsDigits(s) == Len(s) > 0 /\ \A i \in 1..Len(s) : InAlphabet(DigitSeq, s[i])

RECURSIVE NatStr(_)
NatStr(i) == IF i < 10 THEN <<DigitChar(i)>> ELSE NatStr(i \div 10) \o <<DigitChar(i % 10)>>

RECURSIVE DigitsValue(_)
DigitsValue(s) ==
    IF s = <<>> THEN 0 ELSE 10 * DigitsValue(SubSeq(s, 1, Len(s) - 1)) + DigitValue(s[Len(s)])

\* str(v) of a cell value
ToStr(v) ==
    CASE v.t = "str" -> v.s
      [] v.t = "None" -> <<"N", "o", "n", "e">>
      [] v.t = "NaN" -> <<"n", "a", "n">>
      [] v.t = "inf" -> <<"i", "n", "f">>
      [] v.t = "int" ->
            IF v.n < 0 THEN <<"-">> \o NatStr(-v.n) ELSE NatStr(v.n)
      [] v.t = "float" ->
            IF v.n < 0 /\ v.f > 0
            THEN <<"-">> \o NatStr(-v.n - 1) \o <<".">> \o NatStr(10 - v.f)
            ELSE IF v.n < 0 THEN <<"-">> \o NatStr(-v.n) \o <<".", "0">>
            ELSE NatStr(v.n) \o <<".">> \o NatStr(v.f)

(***************************************************************************)
(* transformacao_survey.py: the normalizers                                *)
(***************************************************************************)
sYes == <<"y", "e", "s">>
sNo == <<"n", "o">>
sMaybe == <<"m", "a", "y", "b", "e">>
sUnknown == <<"u", "n", "k", "n", "o", "w", "n">>

YesTokens ==
    {sYes, <<"y">>, <<"t", "r", "u", "e">>, <<"1">>, <<"s", "i", "m">>, <<"s">>}
NoTokens ==
    {sNo, <<"n">>, <<"f", "a", "l", "s", "e">>, <<"0">>, <<"n", "ã", "o">>, <<"n", "a", "o">>}
MaybeTokens ==
    {sMaybe, <<"s", "o", "m", "e", "t", "i", "m", "e", "s">>, <<"u", "n", "s", "u", "r", "e">>,
     <<"d", "o", "n", "'", "t", " ", "k", "n", "o", "w">>,
     <<"d", "o", "n", "t", " ", "k", "n", "o", "w">>}

\* the same function without the strip() of line 42
NormalizeYesNoNoStrip(v) ==
    IF IsNa(v) THEN None
    ELSE LET s == Lower(ToStr(v))
         IN  IF s \in YesTokens THEN Str(sYes)
             ELSE IF s \in NoTokens THEN Str(sNo)
             ELSE IF s \in MaybeTokens THEN Str(sMaybe)
             ELSE Str(sUnknown)

_normalize_yes_no(v) ==
    IF IsNa(v) THEN None
    ELSE LET s == Lower(Strip(ToStr(v)))
         IN  IF s \in YesTokens THEN Str(sYes)
             ELSE IF s \in NoTokens THEN Str(sNo)
             ELSE IF s \in MaybeTokens THEN Str(sMaybe)
             ELSE Str(sUnknown)

sMale == <<"m", "a", "l", "e">>
sFemale == <<"f", "e", "m", "a", "l", "e">>
sOther == <<"o", "t", "h", "e", "r">>

\* the class [a-z] of the pattern of line 54
LowerLetters == {LowerAlphabet[i] : i \in 1..26}

\* re.sub(r'[^a-z]', '', str(v).lower()), then the three lexicons
_normalize_gender(v) ==
    IF IsNa(v) THEN Str(sUnknown)
    ELSE LET s == SelectSeq(Lower(ToStr(v)), LAMBDA c : c \in LowerLetters)
         IN  IF s \in {sMale, <<"m">>, <<"m", "a", "n">>} THEN Str(sMale)
             ELSE IF s \in {sFemale, <<"f">>, <<"w", "o", "m", "a", "n">>, <<"w">>} THEN Str(sFemale)
             ELSE IF s \in {<<"t", "r", "a", "n", "s">>, <<"n", "o", "n", "b", "i", "n", "a", "r", "y">>, <<"n", "b">>, sOther} THEN Str(sOther)
             ELSE IF Len(s) > 0 THEN Str(sOther)
             ELSE Str(sUnknown)

sChild == <<"c", "h", "i", "l", "d">>
sYoungAdult == <<"y", "o", "u", "n", "g", "_", "a", "d", "u", "l", "t">>
sAdult == <<"a", "d", "u", "l", "t">>
sSenior == <<"s", "e", "n", "i", "o", "r">>

\* int(age) of a number: truncation toward zero
IntOf(v) == IF v.n < 0 /\ v.f > 0 THEN v.n + 1 ELSE v.n

\* the same function with <= for < at the first threshold
AgeGroupOffByOne(age) ==
    IF age.t \notin {"int", "float"} THEN Str(sUnknown)
    ELSE LET a == IntOf(age)
         IN  IF a <= 18 THEN Str(sChild)
             ELSE IF a < 30 THEN Str(sYoungAdult)
             ELSE IF a < 60 THEN Str(sAdult)
             ELSE Str(sSenior)

\* int() raises ValueError on NaN and OverflowError on inf (TypeError on None);
\* `except Exception` turns each into "unknown"
_age_group(age) ==
    IF age.t \notin {"int", "float"} THEN Str(sUnknown)
    ELSE LET a == IntOf(age)
         IN  IF a < 18 THEN Str(sChild)
             ELSE IF a < 30 THEN Str(sYoungAdult)
             ELSE IF a < 60 THEN Str(sAdult)
             ELSE Str(sSenior)

\* pd.to_numeric(errors="coerce") of one cell: numbers stay, text is parsed
\* (digits, digits.digit, inf), everything else becomes NaN
ToNumeric(v) ==
    CASE v.t \in {"int", "float", "inf"} -> v
      [] v.t \in {"None", "NaN"} -> NaN
      [] v.t = "str" ->
            LET s == v.s
                dot == Positions(s, {"."})
            IN  IF IsDigits(s) THEN IntVal(DigitsValue(s))
                ELSE IF /\ Cardinality(dot) = 1
                        /\ Len(s) >= 3
                        /\ Max(dot) = Len(s) - 1
                        /\ IsDigits(SubSeq(s, 1, Len(s) - 2))
                        /\ IsDigits(<<s[Len(s)]>>)
                     THEN FloatVal(DigitsValue(SubSeq(s, 1, Len(s) - 2)), DigitValue(s[Len(s)]))
                ELSE IF Lower(s) = <<"i", "n", "f">> THEN Inf
                ELSE NaN

(***************************************************************************)
(* transformacao_survey.py: transform_survey_df                            *)
(*   A table is [cols, index, rows]: the column names, the index labels    *)
(*   (drop_duplicates keeps the labels of the rows it keeps) and the rows, *)
(*   each a function from the column names to cell values.  Column names   *)
(*   are the names after line 81 made them lower-case with underscores.    *)
(***************************************************************************)
ScoreCols ==
    {"family_history", "treatment", "work_interfere",
     "mental_health_consequence", "phys_health_consequence"}

\* the yes/no columns of yn_cols that the model's tables carry
YnCols ==
    {"self_employed", "family_history", "treatment",
     "mental_health_consequence", "phys_health_consequence"}

\* c + "_std"
StdCol(c) ==
    CASE c = "self_employed" -> "self_employed_std"
      [] c = "family_history" -> "family_history_std"
      [] c = "treatment" -> "treatment_std"
      [] c = "mental_health_consequence" -> "mental_health_consequence_std"
      [] c = "phys_health_consequence" -> "phys_health_consequence_std"
      [] c = "work_interfere" -> "work_interfere_std"

Put(row, col, v) == [c \in DOMAIN row \cup {col} |-> IF c = col THEN v ELSE row[c]]

Table(cols, rows) == [cols |-> cols, index |-> [i \in 1..Len(rows) |-> i], rows |-> rows]

\* lines 90-92
AgeStep(cols, r) ==
    IF "age" \in cols
    THEN LET a == ToNumeric(r["age"])
         IN  Put(Put(r, "age", a), "age_group", _age_group(a))
    ELSE r

\* lines 95-96
GenderStep(cols, r) ==
    IF "gender" \in cols THEN Put(r, "gender_norm", _normalize_gender(r["gender"])) ELSE r

TextCols == {"country", "state", "comments"}

\* the keys of the replace() of line 101
TextSentinels == {<<"n", "a", "n">>, <<"n", "o", "n", "e">>, <<"n", "a">>, <<"n", "/", "a">>}

\* line 101: astype(str).str.strip().replace({...: None}); replace swaps a
\* value that equals a key, letter case included
CleanText(v) ==
    LET s == Strip(ToStr(v))
    IN  IF s \in TextSentinels THEN None ELSE Str(s)

\* lines 99-101
RECURSIVE TextStep(_, _)
TextStep(todo, r) ==
    IF todo = {} THEN r
    ELSE LET c == CHOOSE x \in todo : TRUE
         IN  TextStep(todo \ {c}, Put(r, c, CleanText(r[c])))

\* lines 111-113
RECURSIVE YesNoStep(_, _)
YesNoStep(todo, r) ==
    IF todo = {} THEN r
    ELSE LET c == CHOOSE x \in todo : TRUE
         IN  YesNoStep(todo \ {c}, Put(r, StdCol(c), _normalize_yes_no(r[c])))

\* lines 117-135: the text is lower-cased first; int(re.sub(r'\D', '', s)) is
\* the number the digits of s spell, in their order
bucket_emp(v) ==
    LET s == Lower(ToStr(v))
        digits == SelectSeq(s, LAMBDA c : InAlphabet(DigitSeq, c))
    IN  IF Positions(s, {"-", "+"}) # {} THEN Str(s)
        ELSE IF digits = <<>> THEN Str(s)
        ELSE LET n == DigitsValue(digits)
             IN  IF n <= 5 THEN Str(<<"1", "-", "5">>)
                 ELSE IF n <= 25 THEN Str(<<"6", "-", "2", "5">>)
                 ELSE IF n <= 100 THEN Str(<<"2", "6", "-", "1", "0", "0">>)
                 ELSE IF n <= 500 THEN Str(<<"1", "0", "1", "-", "5", "0", "0">>)
                 ELSE Str(<<"5", "0", "0", "+">>)

\* lines 116 and 136
BucketEmpStep(cols, r) ==
    IF "no_employees" \in cols
    THEN Put(r, "no_employees_bucket", bucket_emp(r["no_employees"]))
    ELSE r

sOften == <<"o", "f", "t", "e", "n">>
sSometimes == <<"s", "o", "m", "e", "t", "i", "m", "e", "s">>
sNever == <<"n", "e", "v", "e", "r">>
sRarely == <<"r", "a", "r", "e", "l", "y">>

\* lines 140-142: astype(str).str.lower().str.strip().replace({...}); replace
\* swaps whole values, and only "na" and "none" map to another value
WorkInterfereStd(v) ==
    LET s == Strip(Lower(ToStr(v)))
    IN  IF s \in {<<"n", "a">>, <<"n", "o", "n", "e">>} THEN Str(sUnknown) ELSE Str(s)

WorkInterfereStep(cols, r) ==
    IF "work_interfere" \in cols
    THEN Put(r, "work_interfere_std", WorkInterfereStd(r["work_interfere"]))
    ELSE r

\* lines 145-149: the lambdas
YesFlag(x) == IF x = Str(sYes) THEN 1 ELSE 0
WorkInterfereFlag(x) == IF x \in {Str(sOften), Str(sSometimes)} THEN 1 ELSE 0

\* the sum without the physical-health flag
RiskScoreFourFlags(r) ==
    YesFlag(r["family_history_std"]) + YesFlag(r["treatment_std"])
    + WorkInterfereFlag(r["work_interfere_std"])
    + YesFlag(r["mental_health_consequence_std"])

\* line 151
RiskScore(r) ==
    YesFlag(r["family_history_std"]) + YesFlag(r["treatment_std"])
    + WorkInterfereFlag(r["work_interfere_std"])
    + YesFlag(r["mental_health_consequence_std"])
    + YesFlag(r["phys_health_consequence_std"])

\* the flag without the test of the treatment flag
NeedsFollowUpScoreOnly(r) == IF RiskScore(r) >= 2 THEN 1 ELSE 0

\* line 152
NeedsFollowUp(r) ==
    IF RiskScore(r) >= 2 /\ YesFlag(r["treatment_std"]) = 0 THEN 1 ELSE 0

ScoreStep(r) ==
    Put(Put(r, "risk_score", IntVal(RiskScore(r))), "needs_follow_up", IntVal(NeedsFollowUp(r)))

\* drop_duplicates: missing values are equal to each other, numbers by value
CellEq(a, b) ==
    \/ a = b
    \/ IsNa(a) /\ IsNa(b)
    \/ a.t \in {"int", "float"} /\ b.t \in {"int", "float"} /\ a.n = b.n /\ a.f = b.f

RowEq(r1, r2) == \A c \in DOMAIN r1 : CellEq(r1[c], r2[c])

\* the positions drop_duplicates keeps (keep="first")
KeptPositions(rows) == {i \in 1..Len(rows) : \A j \in 1..(i - 1) : ~RowEq(rows[j], rows[i])}

RECURSIVE Ascending(_)
\* the members of a set of integers, smallest first
Ascending(S) == IF S = {} THEN <<>> ELSE <<Min(S)>> \o Ascending(S \ {Min(S)})

TimeVal(at) == [t |-> "time", s |-> <<>>, n |-> at, f |-> 0]

\* the cells of one row, in the order of the code (lines 89-152)
TransformRow(cols, r) ==
    ScoreStep(WorkInterfereStep(cols, BucketEmpStep(cols,
        YesNoStep(YnCols \cap cols,
            TextStep(TextCols \cap cols, GenderStep(cols, AgeStep(cols, r)))))))

\* df.get("<col>_std", "") is the text "" when the column is absent, and
\* "".apply raises AttributeError (lines 145-149)
transform_survey_df(df, at) ==
    IF ~(ScoreCols \subseteq df.cols)
    THEN [ok |-> FALSE, err |-> "AttributeError", cols |-> {}, index |-> <<>>, rows |-> <<>>]
    ELSE LET done == [i \in 1..Len(df.rows) |-> TransformRow(df.cols, df.rows[i])]
             keep == Ascending(KeptPositions(done))
             outCols ==
                 df.cols \cup {StdCol(c) : c \in (YnCols \cup {"work_interfere"}) \cap df.cols}
                 \cup (IF "age" \in df.cols THEN {"age_group"} ELSE {})
                 \cup (IF "gender" \in df.cols THEN {"gender_norm"} ELSE {})
                 \cup (IF "no_employees" \in df.cols THEN {"no_employees_bucket"} ELSE {})
                 \cup {"risk_score", "needs_follow_up", "processed_at"}
         IN  [ok |-> TRUE, err |-> "none", cols |-> outCols,
              index |-> [k \in 1..Len(keep) |-> df.index[keep[k]]],
              rows |-> [k \in 1..Len(keep) |-> Put(done[keep[k]], "processed_at", TimeVal(at))]]

(***************************************************************************)
(* Inputs of _extract_bucket_name                                          *)
(***************************************************************************)
MaxBodyLen == 3
LongNameLen == MaxBucketLen + 1

BodyAlphabet == {"a", "R", "0", "-", "/", ":", LF, " "}
Schemes == {<<>>, S3Scheme, <<"h", ":", "/", "/">>}

BucketInputs ==
    {p \o b : p \in Schemes, b \in SeqsUpTo(BodyAlphabet, MaxBodyLen)}
    \cup {Repeat("a", n) : n \in {MaxBucketLen, LongNameLen}}
    \cup {Repeat("a", MaxBucketLen) \o <<LF>>}

BucketIdle ==
    /\ bIn = <<>>
    /\ bOut = Raised("none")
    /\ bpc = "idle"

(***************************************************************************)
(* Inputs of transform_survey_df                                           *)
(***************************************************************************)
MaxPad == 1
MaxRows == 3
MaxTime == 1

AllCols == {"age", "gender", "no_employees"} \cup TextCols \cup YnCols \cup ScoreCols

BaseRow ==
    [c \in AllCols |->
        IF c = "age" THEN IntVal(45)
        ELSE IF c = "gender" THEN Str(<<"M", "a", "l", "e">>)
        ELSE IF c = "no_employees" THEN Str(<<"6", "-", "2", "5">>)
        ELSE IF c = "country" THEN Str(<<"B", "R">>)
        ELSE IF c = "state" THEN Str(<<"S", "P">>)
        ELSE IF c = "comments" THEN None
        ELSE IF c = "work_interfere" THEN Str(<<"N", "e", "v", "e", "r">>)
        ELSE Str(<<"N", "o">>)]

OtherWords ==
    {<<>>, <<"x">>, <<"y", "e", "s", "!">>, <<"y", "e", " ", "s">>, sOften,
     <<"n", "a", "n">>, <<"n", "/", "a">>, <<"2">>}

YesNoWords == YesTokens \cup NoTokens \cup MaybeTokens \cup OtherWords

YesNoRaw ==
    {None, NaN, IntVal(0), IntVal(1), IntVal(2), FloatVal(1, 0)}
    \cup {Str(Repeat(" ", l) \o w \o Repeat(" ", r)) :
            l \in 0..MaxPad, r \in 0..MaxPad,
            w \in {v : v \in YesNoWords} \cup {Upper(v) : v \in YesNoWords}
                  \cup {Capitalize(v) : v \in YesNoWords}}

AgeRaw ==
    {IntVal(a) : a \in {-1, 0, 15, 17, 18, 29, 30, 45, 59, 60, 99}}
    \cup {FloatVal(17, 9), FloatVal(29, 5), FloatVal(59, 9), FloatVal(-1, 5), Inf, NaN, None}
    \cup {Str(<<"N", "/", "A">>), Str(<<"a", "b", "c">>), Str(<<>>), Str(<<"4", "5">>),
          Str(<<"1", "7", ".", "5">>), Str(<<"6", "0">>)}

EmpRaw ==
    {Str(<<"1", "-", "5">>),
     Str(<<"6", "-", "2", "5">>),
     Str(<<"2", "6", "-", "1", "0", "0">>),
     Str(<<"1", "0", "0", "-", "5", "0", "0">>),
     Str(<<"5", "0", "0", "-", "1", "0", "0", "0">>),
     Str(<<"M", "o", "r", "e", " ", "t", "h", "a", "n", " ", "1", "0", "0", "0">>),
     Str(<<"5">>),
     Str(<<"6">>),
     Str(<<"2", "5">>),
     Str(<<"2", "6">>),
     Str(<<"1", "0", "0">>),
     Str(<<"1", "0", "1">>),
     Str(<<"5", "0", "0">>),
     Str(<<"5", "0", "1">>),
     Str(<<"1", "-", "5", " ", "E", "m", "p", "l", "o", "y", "e", "e", "s">>),
     Str(<<"U", "n", "k", "n", "o", "w", "n">>),
     Str(<<"5", "0", "0", "+">>),
     Str(<<"A", "2", "b", "6">>),
     Str(<<" ", "7", " ">>),
     Str(<<>>),
     Str(<<"+">>)}
    \cup {NaN, None, IntVal(26), IntVal(1000), FloatVal(26, 0)}

TextRaw ==
    {Str(<<"B", "R">>),
     Str(<<" ", "B", "R", " ">>),
     Str(<<"b", "r">>),
     Str(<<"n", "a", "n">>),
     Str(<<"N", "a", "N">>),
     Str(<<"n", "o", "n", "e">>),
     Str(<<"N", "o", "n", "e">>),
     Str(<<"N", "O", "N", "E">>),
     Str(<<"n", "a">>),
     Str(<<"N", "A">>),
     Str(<<"n", "/", "a">>),
     Str(<<"N", "/", "A">>),
     Str(<<" ", "n", "/", "a", " ">>),
     Str(<<>>),
     Str(<<"n", "a", "n", "o">>),
     Str(<<"B", " ", "R">>)}
    \cup {NaN, None}

WorkRaw ==
    {Str(<<"N", "e", "v", "e", "r">>),
     Str(<<"R", "a", "r", "e", "l", "y">>),
     Str(<<"S", "o", "m", "e", "t", "i", "m", "e", "s">>),
     Str(<<"O", "f", "t", "e", "n">>),
     Str(<<"n", "e", "v", "e", "r">>),
     Str(<<"N", "A">>),
     Str(<<"n", "a">>),
     Str(<<"N", "o", "n", "e">>),
     Str(<<"n", "o", "n", "e">>),
     Str(<<>>),
     Str(<<" ", "o", "f", "t", "e", "n", " ">>),
     Str(<<"m", "a", "y", "b", "e">>),
     Str(<<"n", "a", "n">>),
     Str(<<"N", "/", "A">>),
     Str(<<"S", "o", "m", "e", "t", "i", "m", "e", "s", " ">>)}
    \cup {NaN, None}

GenderRaw ==
    {Str(<<"M", "a", "l", "e">>),
     Str(<<"M">>),
     Str(<<"f", "e", "m", "a", "l", "e">>),
     Str(<<"F", " ">>),
     Str(<<"W", "o", "m", "a", "n">>),
     Str(<<"w">>),
     Str(<<"T", "r", "a", "n", "s">>),
     Str(<<"n", "o", "n", "-", "b", "i", "n", "a", "r", "y">>),
     Str(<<"N", "B">>),
     Str(<<"?", "?">>),
     Str(<<>>),
     Str(<<"C", "i", "s", " ", "M", "a", "l", "e">>),
     Str(<<"m", "a", "n">>),
     Str(<<"o", "t", "h", "e", "r">>)}
    \cup {NaN, None}

YesNoSample == {Str(<<"Y", "e", "s">>), Str(sNo), None, Str(sMaybe)}
WorkSample ==
    {Str(<<"O", "f", "t", "e", "n">>), Str(<<" ", "s", "o", "m", "e", "t", "i", "m", "e", "s">>),
     Str(sNever), NaN, Str(<<"N", "A">>)}

AgeSlice == {Put(BaseRow, "age", a) : a \in AgeRaw}
YesNoSlice ==
    {Put(BaseRow, c, y) : c \in {"self_employed", "treatment"}, y \in YesNoRaw}
EmpSlice == {Put(BaseRow, "no_employees", v) : v \in EmpRaw}
TextSlice == {Put(BaseRow, c, v) : c \in TextCols, v \in TextRaw}
WorkSlice == {Put(BaseRow, "work_interfere", v) : v \in WorkRaw}
GenderSlice == {Put(BaseRow, "gender", v) : v \in GenderRaw}
ScoreSlice ==
    {[c \in AllCols |->
        CASE c = "family_history" -> fh
          [] c = "treatment" -> tr
          [] c = "work_interfere" -> wi
          [] c = "mental_health_consequence" -> mh
          [] c = "phys_health_consequence" -> ph
          [] OTHER -> BaseRow[c]] :
     fh \in YesNoSample, tr \in YesNoSample, wi \in WorkSample,
     mh \in YesNoSample, ph \in YesNoSample}

\* the rows of the many-row tables: ages 15, 45 and "N/A", the rest as BaseRow
SmallRows == {Put(BaseRow, "age", a) : a \in {IntVal(15), IntVal(45), Str(<<"N", "/", "A">>)}}

\* rows that differ in country only: BR, " BR", nan, None
DupRows ==
    {BaseRow} \cup {Put(BaseRow, "country", Str(w)) : w \in {<<" ", "B", "R">>, <<"n", "a", "n">>, <<"N", "o", "n", "e">>}}

\* tables that lack one column
ColumnSets == {AllCols \ {c} : c \in AllCols}
Restrict(r, cols) == [c \in cols |-> r[c]]

RawTables ==
    {Table(AllCols, <<r>>) :
        r \in AgeSlice \cup YesNoSlice \cup ScoreSlice \cup EmpSlice \cup TextSlice
              \cup WorkSlice \cup GenderSlice}
    \cup {Table(AllCols, rows) : rows \in SeqsUpTo(SmallRows, MaxRows)}
    \cup {Table(AllCols, rows) : rows \in SeqsUpTo(DupRows, MaxRows)}
    \cup {Table(cols, <<Restrict(r, cols)>>) : cols \in ColumnSets, r \in AgeSlice}

NoTable == [ok |-> FALSE, err |-> "none", cols |-> {}, index |-> <<>>, rows |-> <<>>]

TransformIdle ==
    /\ tIn = Table({}, <<>>)
    /\ tOut = NoTable
    /\ tpc = "idle"
    /\ tPrev = NoTable

(***************************************************************************)
(* transformacao_gold_survey.py: _obter_ultimo_arquivo_silver              *)
(*   A listing is what list_objects_v2 returns: the objects under the      *)
(*   prefix as [Key, LastModified], in ascending order of Key.  The key    *)
(*   survey/data_silver_<token>.parquet is modelled by its token: tokens   *)
(*   are %Y%m%dT%H%M%SZ, of one width, so keys order as tokens do.         *)
(***************************************************************************)
Listing(objs) ==
    LET ks == Ascending(DOMAIN objs)
    IN  [i \in 1..Len(ks) |-> [Key |-> ks[i], LastModified |-> objs[ks[i]].mtime]]

RECURSIVE SortedDescending(_)
\* sorted(keys, key=LastModified, reverse=True): the sort is stable, and with
\* reverse=True objects of equal LastModified keep their order in the listing
SortedDescending(list) ==
    IF list = <<>> THEN <<>>
    ELSE LET first == Min({i \in 1..Len(list) :
                            \A j \in 1..Len(list) : list[j].LastModified <= list[i].LastModified})
         IN  <<list[first]>>
             \o SortedDescending([k \in 1..(Len(list) - 1) |->
                                    IF k < first THEN list[k] ELSE list[k + 1]])

\* lines 69-70, for a listing that is not empty
_obter_ultimo_arquivo_silver(list) == SortedDescending(list)[1].Key

(***************************************************************************)
(* transformacao_gold_survey.py: calcular_metricas                         *)
(*   A number of resultados is [some, num, den]: the quotient num/den, or  *)
(*   None when some is false; 0/0 is the NaN that pandas yields for it.    *)
(*   A distribution table is the sequence of its rows, first row first.    *)
(***************************************************************************)
Absent == [some |-> FALSE, num |-> 0, den |-> 1]
Scalar(n) == [some |-> TRUE, num |-> n, den |-> 1]
Quotient(a, b) == [some |-> TRUE, num |-> a, den |-> b]

RECURSIVE SumSeq(_)
SumSeq(xs) == IF xs = <<>> THEN 0 ELSE Head(xs) + SumSeq(Tail(xs))

\* the values of one column, in row order
Column(df, col) == [i \in 1..Len(df.rows) |-> df.rows[i][col]]

\* the key value_counts(dropna=False) files a value under: one key for all
\* missing values
CategoryKey(v) == IF IsNa(v) THEN NaN ELSE v

\* the distinct keys of a column in the order of their first appearance
\* (the order of the hash table value_counts fills)
FirstSeen(xs) ==
    LET firsts == {i \in 1..Len(xs) :
                      \A j \in 1..(i - 1) : CategoryKey(xs[j]) # CategoryKey(xs[i])}
        order == Ascending(firsts)
    IN  [k \in 1..Len(order) |-> CategoryKey(xs[order[k]])]

CountOf(xs, key) == Cardinality({i \in 1..Len(xs) : CategoryKey(xs[i]) = key})

RECURSIVE SortByCountDescending(_)
\* sort_values(ascending=False) of the counts: rows of equal count keep the
\* order they had
SortByCountDescending(list) ==
    IF list = <<>> THEN <<>>
    ELSE LET first == Min({i \in 1..Len(list) :
                            \A j \in 1..Len(list) : list[j].quantidade <= list[i].quantidade})
         IN  <<list[first]>>
             \o SortByCountDescending([k \in 1..(Len(list) - 1) |->
                                         IF k < first THEN list[k] ELSE list[k + 1]])

\* value_counts() with its default dropna=True: missing values are left out
ValueCountsDropNa(xs) ==
    LET keys == SelectSeq(FirstSeen(xs), LAMBDA k : ~IsNa(k))
    IN  SortByCountDescending(
            [k \in 1..Len(keys) |-> [categoria |-> keys[k], quantidade |-> CountOf(xs, keys[k])]])

\* value_counts(dropna=False).rename_axis(...).reset_index(name='quantidade')
value_counts(xs) ==
    LET keys == FirstSeen(xs)
    IN  SortByCountDescending(
            [k \in 1..Len(keys) |-> [categoria |-> keys[k], quantidade |-> CountOf(xs, keys[k])]])

\* the key of resultados of each distribution table, and its column of df
TableColumn ==
    [faixa_etaria |-> "age_group", genero |-> "gender_norm",
     tamanho_empresa |-> "no_employees_bucket",
     interferencia_trabalho |-> "work_interfere_std"]

\* lines 93-101
TaxaTratamento(df) ==
    IF "treatment_std" \notin df.cols
    THEN [present |-> FALSE, total |-> 0, quantidade_sim |-> 0, taxa_tratamento |-> Absent]
    ELSE LET tratamento == value_counts(Column(df, "treatment_std"))
             total == SumSeq([k \in 1..Len(tratamento) |-> tratamento[k].quantidade])
             sim == SumSeq([k \in 1..Len(tratamento) |->
                              IF tratamento[k].categoria = Str(sYes)
                              THEN tratamento[k].quantidade ELSE 0])
         IN  [present |-> TRUE, total |-> total, quantidade_sim |-> sim,
              taxa_tratamento |-> IF total > 0 THEN Quotient(sim, total) ELSE Absent]

\* the values of risk_score that are not missing
RiskValues(df) ==
    LET xs == SelectSeq(Column(df, "risk_score"), LAMBDA v : ~IsNa(v))
    IN  [k \in 1..Len(xs) |-> xs[k].n]

\* the k-th smallest of xs
KthSmallest(xs, k) ==
    CHOOSE v \in {xs[i] : i \in 1..Len(xs)} :
        /\ Cardinality({i \in 1..Len(xs) : xs[i] < v}) < k
        /\ Cardinality({i \in 1..Len(xs) : xs[i] <= v}) >= k

\* lines 105-107; each is None when risk_score has no value
MediaRisco(df) ==
    IF "risk_score" \notin df.cols \/ RiskValues(df) = <<>> THEN Absent
    ELSE Quotient(SumSeq(RiskValues(df)), Len(RiskValues(df)))

\* the middle value, or the mean of the two middle values
MedianaRisco(df) ==
    IF "risk_score" \notin df.cols \/ RiskValues(df) = <<>> THEN Absent
    ELSE LET xs == RiskValues(df)
             n == Len(xs)
         IN  Quotient(KthSmallest(xs, (n + 1) \div 2) + KthSmallest(xs, (n + 2) \div 2), 2)

\* the square of Series.std() (ddof=1): the sample variance, NaN for one value
DesvioPadraoRiscoSquared(df) ==
    IF "risk_score" \notin df.cols \/ RiskValues(df) = <<>> THEN Absent
    ELSE LET xs == RiskValues(df)
             n == Len(xs)
             sum == SumSeq(xs)
             sumsq == SumSeq([k \in 1..n |-> xs[k] * xs[k]])
         IN  Quotient(n * sumsq - sum * sum, n * (n - 1))

\* the columns of a silver table in their order in the table
ColumnOrder ==
    <<"timestamp", "age", "comments", "treatment_std", "age_group", "gender_norm",
      "no_employees_bucket", "work_interfere_std", "risk_score">>

NullCount(df, col) == Cardinality({i \in 1..Len(df.rows) : IsNa(df.rows[i][col])})

\* the share of the values that are not missing
PercentNotMissing(df, col) == Quotient(Len(df.rows) - NullCount(df, col), Len(df.rows))

\* line 122, one column: df.isna().sum() / len(df)
PercentMissing(df, col) == Quotient(NullCount(df, col), Len(df.rows))

\* lines 122-124
Faltantes(df) ==
    LET present == SelectSeq(ColumnOrder, LAMBDA c : c \in df.cols)
    IN  [k \in 1..Len(present) |->
            [coluna |-> present[k], percentual_faltante |-> PercentMissing(df, present[k])]]

calcular_metricas(df) ==
    [total_respostas |-> Scalar(Len(df.rows)),
     timestamps_unicos |->
        IF "timestamp" \in df.cols
        THEN Scalar(Cardinality({df.rows[i]["timestamp"] : i \in 1..Len(df.rows)}
                                \ {None, NaN}))
        ELSE Absent,
     idades_faltantes |->
        IF "age" \in df.cols THEN Scalar(NullCount(df, "age")) ELSE Absent,
     tabelas |->
        [name \in {n \in DOMAIN TableColumn : TableColumn[n] \in df.cols} |->
            value_counts(Column(df, TableColumn[name]))],
     tratamento |-> TaxaTratamento(df),
     media_risco |-> MediaRisco(df),
     mediana_risco |-> MedianaRisco(df),
     desvio_padrao_risco_squared |-> DesvioPadraoRiscoSquared(df),
     faltantes |-> Faltantes(df)]

(***************************************************************************)
(* Inputs of calcular_metricas: silver tables                              *)
(***************************************************************************)
MaxMetricRows == 3

MetricCols == {ColumnOrder[i] : i \in 1..Len(ColumnOrder)}

MetricRow(ts, age, group, gender, treatment, emp, work, risk) ==
    [c \in MetricCols |->
        CASE c = "timestamp" -> ts
          [] c = "age" -> age
          [] c = "comments" -> None
          [] c = "treatment_std" -> treatment
          [] c = "age_group" -> group
          [] c = "gender_norm" -> gender
          [] c = "no_employees_bucket" -> emp
          [] c = "work_interfere_std" -> work
          [] c = "risk_score" -> risk]

MetricRows ==
    {MetricRow(TimeVal(0), IntVal(15), Str(sChild), Str(sMale), Str(sYes),
               Str(<<"1", "-", "5">>), Str(sOften), IntVal(3)),
     MetricRow(TimeVal(1), IntVal(45), Str(sAdult), Str(sFemale), Str(sNo),
               Str(<<"6", "-", "2", "5">>), Str(sNever), IntVal(0)),
     MetricRow(TimeVal(1), IntVal(45), Str(sAdult), Str(sMale), None,
               Str(<<"6", "-", "2", "5">>), Str(sSometimes), IntVal(1)),
     MetricRow(None, NaN, None, None, None, None, None, IntVal(0))}

\* tables that lack one column
MetricColumnSets == {MetricCols \ {c} : c \in MetricCols}

MetricTables ==
    {Table(MetricCols, rows) : rows \in SeqsUpTo(MetricRows, MaxMetricRows)}
    \cup {Table(cols, <<Restrict(r, cols)>>) : cols \in MetricColumnSets, r \in MetricRows}

NoMetrics == calcular_metricas(Table({}, <<>>))

MetricIdle ==
    /\ gIn = Table({}, <<>>)
    /\ gOut = NoMetrics
    /\ gPrev = NoMetrics
    /\ gpc = "idle"

(***************************************************************************)
(* The pipeline: silver runs (normalize_and_call_process_survey ->         *)
(* process_survey_to_silver) and gold runs (main), one after another, each *)
(* a sequence of steps between which the clock may advance.  Every call of *)
(* the object store or the relational store may fail.                      *)
(***************************************************************************)
MaxRuns == 3
MaxDetailRows == 2
\* the rows of summary_rows
NSummaryRows == 9

sRaw == <<"r", "a", "w">>
sSilver == <<"s", "i", "l", "v", "e", "r">>

BronzeArgs == {sRaw, <<>>}
SilverArgs == {sSilver, S3Scheme \o sSilver \o <<"/", "x">>, <<"s", " ", "v">>}

DataParquet == "survey/data.parquet"

GoldKey(name, ts) == [name |-> name, ts |-> ts]

IdleRun ==
    [id |-> 0, kind |-> "none", pc |-> "idle", err |-> "none",
     bronzeRaw |-> <<>>, silverRaw |-> <<>>,
     calls |-> 0,            \* object-store calls made so far
     ts |-> -1,              \* the run token
     ultimo |-> -1,          \* the silver key the gold run selected
     hasComments |-> FALSE,  \* df has comments longer than 5 characters
     nDetail |-> 0,          \* rows of the detail tables of resultados
     i |-> 0,                \* rows of the current insert loop attempted
     pending |-> [summary |-> 0, details |-> 0],  \* inserted, not yet committed
     mirrorErr |-> FALSE,    \* save_metrics_to_mariadb raised
     uploaded |-> {},        \* the keys the run has uploaded
     result |-> {}]          \* the keys the run returned to its caller

Fail(e) == [run EXCEPT !.pc = "failed", !.err = e]
FailAfterCall(e) == [run EXCEPT !.pc = "failed", !.err = e, !.calls = @ + 1]

StoreIdle ==
    /\ buckets = {"raw"}
    /\ bronze = {}
    /\ silver = <<>>
    /\ gold = <<>>
    /\ db = [summary |-> FALSE, details |-> FALSE]
    /\ run = IdleRun
    /\ nruns = 0

PipelineIdle == now = 0 /\ StoreIdle

PipelineInit ==
    /\ PipelineIdle
    /\ BucketIdle
    /\ TransformIdle
    /\ MetricIdle

Tick ==
    /\ now < MaxTime
    /\ now' = now + 1
    /\ UNCHANGED <<bucketVars, transformVars, metricVars, pipelineVars>>

CanStart == run.pc \in {"idle", "done", "failed"} /\ nruns < MaxRuns

\* g_sheets_extracao_dk.py: google_sheet_to_minio_etl puts survey/data.parquet
ExtractToBronze ==
    /\ run.pc \in {"idle", "done", "failed"}
    /\ bronze' = bronze \cup {DataParquet}
    /\ UNCHANGED <<bucketVars, transformVars, metricVars, now, buckets, silver, gold, db, run, nruns>>

\* the wrapper that validates only the bronze argument before the call
NormalizeAndCallBronzeOnly(b, s) ==
    IF ~_extract_bucket_name(b).ok THEN "failed" ELSE "s_list"

\* dag_etl_survey.py lines 55-60: both arguments are extracted before
\* process_survey_to_silver is called
normalize_and_call_process_survey(b, s) ==
    IF ~_extract_bucket_name(b).ok \/ ~_extract_bucket_name(s).ok THEN "failed" ELSE "s_list"

StartSilver ==
    /\ CanStart
    /\ \E b \in BronzeArgs, s \in SilverArgs :
        run' = [IdleRun EXCEPT !.id = nruns + 1, !.kind = "silver",
                               !.bronzeRaw = b, !.silverRaw = s,
                               !.pc = normalize_and_call_process_survey(b, s),
                               !.err = IF normalize_and_call_process_survey(b, s) = "failed"
                                       THEN "ValueError" ELSE "none"]
    /\ nruns' = nruns + 1
    /\ UNCHANGED <<bucketVars, transformVars, metricVars, now, storeVars>>

\* transformacao_survey.py lines 176-180
SilverList ==
    /\ run.pc = "s_list"
    /\ \/ run' = FailAfterCall("ClientError")
       \/ /\ bronze = {}
          /\ run' = FailAfterCall("FileNotFoundError")
       \/ /\ bronze # {}
          /\ run' = [run EXCEPT !.pc = "s_head", !.calls = @ + 1]
    /\ UNCHANGED <<bucketVars, transformVars, metricVars, now, storeVars, nruns>>

\* lines 187-191: head_bucket, and create_bucket when it raises ClientError
SilverHead ==
    /\ run.pc = "s_head"
    /\ \/ /\ "silver" \in buckets
          /\ run' = [run EXCEPT !.pc = "s_get", !.calls = @ + 1]
          /\ UNCHANGED buckets
       \/ /\ "silver" \notin buckets
          /\ \/ /\ run' = [run EXCEPT !.pc = "s_get", !.calls = @ + 2]
                /\ buckets' = buckets \cup {"silver"}
             \/ /\ run' = [run EXCEPT !.pc = "failed", !.err = "ClientError", !.calls = @ + 2]
                /\ UNCHANGED buckets
    /\ UNCHANGED <<bucketVars, transformVars, metricVars, now, bronze, silver, gold, db, nruns>>

\* lines 194-201
SilverGet ==
    /\ run.pc = "s_get"
    /\ \/ run' = FailAfterCall("ClientError")
       \/ run' = [run EXCEPT !.pc = "s_transform", !.calls = @ + 1]
    /\ UNCHANGED <<bucketVars, transformVars, metricVars, now, storeVars, nruns>>

\* lines 204-231: read_parquet, transform_survey_df, to_parquet, then the token
SilverTransform ==
    /\ run.pc = "s_transform"
    /\ \/ run' = Fail("ArrowInvalid")
       \/ run' = Fail("AttributeError")
       \/ run' = [run EXCEPT !.pc = "s_upload", !.ts = now]
    /\ UNCHANGED <<bucketVars, transformVars, metricVars, now, storeVars, nruns>>

\* lines 232-240: the object gets its LastModified when the upload completes
SilverUpload ==
    /\ run.pc = "s_upload"
    /\ \/ /\ run' = FailAfterCall("ClientError")
          /\ UNCHANGED silver
       \/ /\ silver' = Put(silver, run.ts, [mtime |-> now, run |-> run.id])
          /\ run' = [run EXCEPT !.pc = "done", !.calls = @ + 1,
                                !.uploaded = {run.ts}, !.result = {run.ts}]
    /\ UNCHANGED <<bucketVars, transformVars, metricVars, now, buckets, bronze, gold, db, nruns>>

\* transformacao_gold_survey.py main, line 378
StartGold ==
    /\ CanStart
    /\ run' = [IdleRun EXCEPT !.id = nruns + 1, !.kind = "gold", !.pc = "g_list"]
    /\ nruns' = nruns + 1
    /\ UNCHANGED <<bucketVars, transformVars, metricVars, now, storeVars>>

\* lines 380-385 and 65-70: list_objects_v2 raises when the bucket is absent
GoldList ==
    /\ run.pc = "g_list"
    /\ \/ run' = FailAfterCall("ClientError")
       \/ /\ "silver" \in buckets
          /\ DOMAIN silver = {}
          /\ run' = FailAfterCall("FileNotFoundError")
       \/ /\ "silver" \in buckets
          /\ DOMAIN silver # {}
          /\ run' = [run EXCEPT !.pc = "g_get", !.calls = @ + 1,
                                !.ultimo = _obter_ultimo_arquivo_silver(Listing(silver))]
    /\ UNCHANGED <<bucketVars, transformVars, metricVars, now, storeVars, nruns>>

\* lines 387-399: get_object, read_parquet, calcular_metricas
GoldGet ==
    /\ run.pc = "g_get"
    /\ \/ run' = FailAfterCall("ClientError")
       \/ \E c \in BOOLEAN, d \in 0..MaxDetailRows :
            run' = [run EXCEPT !.pc = "g_head", !.calls = @ + 1,
                               !.hasComments = c, !.nDetail = d]
    /\ UNCHANGED <<bucketVars, transformVars, metricVars, now, storeVars, nruns>>

\* lines 166-172: head_bucket, create_bucket when it raises, then the token
GoldHead ==
    /\ run.pc = "g_head"
    /\ \/ /\ "gold" \in buckets
          /\ run' = [run EXCEPT !.pc = "g_resumo", !.calls = @ + 1, !.ts = now]
          /\ UNCHANGED buckets
       \/ /\ "gold" \notin buckets
          /\ \/ /\ run' = [run EXCEPT !.pc = "g_resumo", !.calls = @ + 2, !.ts = now]
                /\ buckets' = buckets \cup {"gold"}
             \/ /\ run' = [run EXCEPT !.pc = "failed", !.err = "ClientError", !.calls = @ + 2]
                /\ UNCHANGED buckets
    /\ UNCHANGED <<bucketVars, transformVars, metricVars, now, bronze, silver, gold, db, nruns>>

\* where salvar_gold_e_db goes after the artifact `name`
AfterUpload(name) ==
    CASE name = "metricas_resumo" -> "g_tabelas"
      [] name = "metricas_tabelas" -> "g_comentarios"
      [] name = "principais_comentarios" -> "m_connect"

\* to_parquet / to_csv into a buffer, then upload_fileobj under <name>_<ts>:
\* serialization raises before the upload, the upload raises with no object put
SerializeAndUpload(name) ==
    \/ /\ run' = Fail("ArrowInvalid")
       /\ UNCHANGED gold
    \/ /\ run' = FailAfterCall("ClientError")
       /\ UNCHANGED gold
    \/ /\ gold' = Put(gold, GoldKey(name, run.ts), [mtime |-> now, run |-> run.id])
       /\ run' = [run EXCEPT !.pc = AfterUpload(name), !.calls = @ + 1,
                             !.uploaded = @ \cup {GoldKey(name, run.ts)}]

\* lines 210-222
GoldResumo ==
    /\ run.pc = "g_resumo"
    /\ SerializeAndUpload("metricas_resumo")
    /\ UNCHANGED <<bucketVars, transformVars, metricVars, now, buckets, bronze, silver, db, nruns>>

\* lines 225-240
GoldTabelas ==
    /\ run.pc = "g_tabelas"
    /\ SerializeAndUpload("metricas_tabelas")
    /\ UNCHANGED <<bucketVars, transformVars, metricVars, now, buckets, bronze, silver, db, nruns>>

\* lines 243-263: the excerpt is written only when there are comments
GoldComentarios ==
    /\ run.pc = "g_comentarios"
    /\ \/ /\ run.hasComments
          /\ SerializeAndUpload("principais_comentarios")
       \/ /\ ~run.hasComments
          /\ run' = [run EXCEPT !.pc = "m_connect"]
          /\ UNCHANGED gold
    /\ UNCHANGED <<bucketVars, transformVars, metricVars, now, buckets, bronze, silver, db, nruns>>

\* an exception of save_metrics_to_mariadb that main does not catch
MirrorRaisesUncaught == [run EXCEPT !.pc = "failed", !.err = "OperationalError",
                                    !.mirrorErr = TRUE,
                                    !.pending = [summary |-> 0, details |-> 0]]

\* main lines 402-405: an exception of save_metrics_to_mariadb is logged
MirrorRaises == [run EXCEPT !.pc = "g_return", !.mirrorErr = TRUE,
                            !.pending = [summary |-> 0, details |-> 0]]

\* save_metrics_to_mariadb lines 272-301: connect, create the tables, commit
MirrorConnect ==
    /\ run.pc = "m_connect"
    /\ \/ run' = MirrorRaises
       \/ run' = [run EXCEPT !.pc = "m_summary", !.i = 0]
    /\ UNCHANGED <<bucketVars, transformVars, metricVars, now, storeVars, nruns>>

\* one pass of an insert loop whose insert raised: logged, the loop goes on
InsertFailed == [run EXCEPT !.i = @ + 1]

\* lines 318-342: one row of summary_rows
MirrorInsertSummary ==
    /\ run.pc = "m_summary"
    /\ run.i < NSummaryRows
    /\ \/ run' = [run EXCEPT !.i = @ + 1, !.pending.summary = @ + 1]
       \/ run' = InsertFailed
    /\ UNCHANGED <<bucketVars, transformVars, metricVars, now, storeVars, nruns>>

\* line 343: a commit that raises leaves nothing of the transaction
MirrorCommitSummary ==
    /\ run.pc = "m_summary"
    /\ run.i = NSummaryRows
    /\ \/ /\ run' = MirrorRaises
          /\ UNCHANGED db
       \/ /\ db' = [db EXCEPT !.summary = @ \/ run.pending.summary > 0]
          /\ run' = [run EXCEPT !.pc = "m_details", !.i = 0, !.pending.summary = 0]
    /\ UNCHANGED <<bucketVars, transformVars, metricVars, now, buckets, bronze, silver, gold, nruns>>

\* lines 347-362: one row of a detail table
MirrorInsertDetail ==
    /\ run.pc = "m_details"
    /\ run.i < run.nDetail
    /\ \/ run' = [run EXCEPT !.i = @ + 1, !.pending.details = @ + 1]
       \/ run' = InsertFailed
    /\ UNCHANGED <<bucketVars, transformVars, metricVars, now, storeVars, nruns>>

\* line 363
MirrorCommitDetails ==
    /\ run.pc = "m_details"
    /\ run.i = run.nDetail
    /\ \/ /\ run' = MirrorRaises
          /\ UNCHANGED db
       \/ /\ db' = [db EXCEPT !.details = @ \/ run.pending.details > 0]
          /\ run' = [run EXCEPT !.pc = "g_return", !.pending.details = 0]
    /\ UNCHANGED <<bucketVars, transformVars, metricVars, now, buckets, bronze, silver, gold, nruns>>

\* main lines 407-408
GoldReturn ==
    /\ run.pc = "g_return"
    /\ run' = [run EXCEPT !.pc = "done", !.result = run.uploaded]
    /\ UNCHANGED <<bucketVars, transformVars, metricVars, now, storeVars, nruns>>

PipelineNext ==
    \/ Tick
    \/ ExtractToBronze
    \/ StartSilver
    \/ SilverList
    \/ SilverHead
    \/ SilverGet
    \/ SilverTransform
    \/ SilverUpload
    \/ StartGold
    \/ GoldList
    \/ GoldGet
    \/ GoldHead
    \/ GoldResumo
    \/ GoldTabelas
    \/ GoldComentarios
    \/ MirrorConnect
    \/ MirrorInsertSummary
    \/ MirrorCommitSummary
    \/ MirrorInsertDetail
    \/ MirrorCommitDetails
    \/ GoldReturn

Spec == PipelineInit /\ [][PipelineNext]_vars

(***************************************************************************)
(* Specification of the bucket identifier                                  *)
(***************************************************************************)
BucketInit ==
    /\ bIn \in BucketInputs
    /\ bOut = Raised("none")
    /\ bpc = "call"
    /\ TransformIdle
    /\ MetricIdle
    /\ PipelineIdle

ExtractBucketName ==
    /\ bpc = "call"
    /\ bOut' = _extract_bucket_name(bIn)
    /\ bpc' = "done"
    /\ UNCHANGED <<bIn, transformVars, metricVars, now, pipelineVars>>

SpecBucket == BucketInit /\ [][ExtractBucketName]_vars

(***************************************************************************)
(* Specification of the normalizer and risk scorer                         *)
(***************************************************************************)
TransformInit ==
    /\ tIn \in RawTables
    /\ tOut = NoTable
    /\ tpc = "call"
    /\ tPrev = NoTable
    /\ BucketIdle
    /\ MetricIdle
    /\ now \in 0..MaxTime
    /\ StoreIdle

TransformSurveyDf ==
    /\ tpc = "call"
    /\ tOut' = transform_survey_df(tIn, now)
    /\ tpc' = "done"
    /\ UNCHANGED <<tIn, tPrev, bucketVars, metricVars, now, pipelineVars>>

\* transform_survey_df applied to the table it returned
TransformAgain ==
    /\ tpc = "done"
    /\ tOut.ok
    /\ tIn' = [cols |-> tOut.cols, index |-> tOut.index, rows |-> tOut.rows]
    /\ tPrev' = tOut
    /\ tOut' = transform_survey_df(tIn', now)
    /\ tpc' = "again"
    /\ UNCHANGED <<bucketVars, metricVars, now, pipelineVars>>

TransformNext == TransformSurveyDf \/ TransformAgain

SpecTransform == TransformInit /\ [][TransformNext]_vars

(***************************************************************************)
(* Specification of the aggregator: calcular_metricas of a silver table,   *)
(* then of the same rows in another order                                  *)
(***************************************************************************)
MetricInit ==
    /\ gIn \in MetricTables
    /\ gOut = NoMetrics
    /\ gPrev = NoMetrics
    /\ gpc = "call"
    /\ BucketIdle
    /\ TransformIdle
    /\ PipelineIdle

CalcularMetricas ==
    /\ gpc \in {"call", "recall"}
    /\ gOut' = calcular_metricas(gIn)
    /\ gpc' = IF gpc = "call" THEN "done" ELSE "redone"
    /\ UNCHANGED <<gIn, gPrev, bucketVars, transformVars, now, pipelineVars>>

\* the rows of the table in another order
Shuffle ==
    /\ gpc \in {"done", "redone"}
    /\ \E p \in Permutations(1..Len(gIn.rows)) :
        /\ \E i \in 1..Len(gIn.rows) : p[i] # i
        /\ gIn' = [gIn EXCEPT !.rows = [i \in 1..Len(gIn.rows) |-> gIn.rows[p[i]]],
                              !.index = [i \in 1..Len(gIn.rows) |-> gIn.index[p[i]]]]
    /\ gPrev' = gOut
    /\ gpc' = "recall"
    /\ UNCHANGED <<gOut, bucketVars, transformVars, now, pipelineVars>>

MetricNext == CalcularMetricas \/ Shuffle

SpecMetrics == MetricInit /\ [][MetricNext]_vars

(***************************************************************************)
(* Claims about the pipeline (Spec)                                        *)
(***************************************************************************)
\* the gold artifacts of the run in progress that are in the bucket
C1_VisibleOfRun == {k \in DOMAIN gold : k.ts = run.ts /\ gold[k].run = run.id}

C1_FullSet ==
    {GoldKey("metricas_resumo", run.ts), GoldKey("metricas_tabelas", run.ts)}
    \cup (IF run.hasComments THEN {GoldKey("principais_comentarios", run.ts)} ELSE {})

\* C1: the artifacts of one gold run are all-or-nothing: a run that fails
\* leaves no artifact of its token in the gold bucket, a run that completes
\* leaves the full set.
C1_AllOrNothing ==
    run.kind = "gold" =>
        /\ run.pc = "failed" => C1_VisibleOfRun = {}
        /\ run.pc = "done" => C1_VisibleOfRun = C1_FullSet

\* C2: every run writes to keys no earlier run has written, so no object of
\* the silver or the gold bucket is ever overwritten or mutated.
C2_KeysNeverReused ==
    [][/\ \A k \in DOMAIN silver : k \in DOMAIN silver' /\ silver'[k] = silver[k]
       /\ \A k \in DOMAIN gold : k \in DOMAIN gold' /\ gold'[k] = gold[k]]_vars

\* C3: the silver object the gold run selects has the greatest modification
\* time of all, and among those of that time the greatest key.
C3_SelectsLatest ==
    (run.kind = "gold" /\ run.ultimo # -1) =>
        \A k \in DOMAIN silver :
            \/ silver[k].mtime < silver[run.ultimo].mtime
            \/ silver[k].mtime = silver[run.ultimo].mtime /\ k <= run.ultimo

C4_Columnar == {GoldKey("metricas_resumo", run.ts), GoldKey("metricas_tabelas", run.ts)}

\* C4: a failure of the relational mirror never aborts a gold run: an insert
\* that fails leaves the loop running on the next row, and when the mirror
\* step raises, main still returns the keys of the artifacts it wrote, which
\* are in the gold bucket.
C4_MirrorFailureNeverAborts ==
    /\ [](run.kind = "gold" =>
            /\ run.mirrorErr => run.pc \in {"g_return", "done"}
            /\ run.pc \in {"m_connect", "m_summary", "m_details", "g_return", "done"} =>
                 /\ C4_Columnar \subseteq run.uploaded
                 /\ \A k \in run.uploaded : k \in DOMAIN gold /\ gold[k].run = run.id
            /\ run.pc = "done" => run.result = run.uploaded)
    /\ [][/\ (run.pc = "m_summary" /\ run.i < NSummaryRows /\ run' # run) =>
                (run'.pc = "m_summary" /\ run'.i = run.i + 1)
          /\ (run.pc = "m_details" /\ run.i < run.nDetail /\ run' # run) =>
                (run'.pc = "m_details" /\ run'.i = run.i + 1)]_vars

C4_Witness ==
    /\ run.kind = "gold"
    /\ run.pc = "done"
    /\ run.mirrorErr
    /\ C4_Columnar \subseteq run.result
    /\ run.result \subseteq DOMAIN gold

\* an argument _extract_bucket_name rejects: empty, or its identifier does
\* not pass the validation
C5_Rejected(value) == value = <<>> \/ ~BucketPatternMatches(ExtractedBucket(value))

\* C5: when either bucket argument of normalize_and_call_process_survey is
\* empty or fails validation, the run ends with the ValueError before any
\* object-store call is made.
C5_InvalidIdentifierBeforeAnyCall ==
    (run.kind = "silver" /\ (C5_Rejected(run.bronzeRaw) \/ C5_Rejected(run.silverRaw))) =>
        /\ run.calls = 0
        /\ run.pc = "failed"
        /\ run.err = "ValueError"
        /\ run.uploaded = {}

C5_Witness ==
    /\ run.kind = "silver"
    /\ ~C5_Rejected(run.bronzeRaw)
    /\ C5_Rejected(run.silverRaw)
    /\ run.pc = "failed"
    /\ run.err = "ValueError"
    /\ run.calls = 0

(***************************************************************************)
(* Claims about the bucket identifier (SpecBucket)                         *)
(***************************************************************************)
\* where the first "://" of value starts, 0 if there is none after a scheme
C6_SchemeEnd(value) ==
    LET at == {i \in 2..(Len(value) - 2) : SubSeq(value, i, i + 2) = <<":", "/", "/">>}
    IN  IF at = {} THEN 0 ELSE Min(at)

\* the leading identifier of a bare name, of name/path and of scheme://name/path
C6_Leading(value) ==
    IF C6_SchemeEnd(value) = 0 THEN UpToFirst(value, {"/"})
    ELSE UpToFirst(SubSeq(value, C6_SchemeEnd(value) + 3, Len(value)), {"/"})

\* 1 to 255 characters from [A-Z a-z 0-9 . - _]
C6_ValidName(name) ==
    /\ Len(name) \in 1..MaxBucketLen
    /\ \A i \in 1..Len(name) : name[i] \in BucketChars

\* C6: _extract_bucket_name returns exactly the leading identifier of each of
\* the three forms when that identifier is 1 to 255 characters of the class,
\* raises a validation error on empty input and on a leading identifier that
\* does not match, and never returns a value that does not match.
C6_ExtractsLeadingIdentifier ==
    bpc = "done" =>
        /\ (bIn # <<>> /\ C6_ValidName(C6_Leading(bIn))) => bOut = Returned(C6_Leading(bIn))
        /\ (bIn = <<>> \/ ~C6_ValidName(C6_Leading(bIn))) => bOut = Raised("ValueError")
        /\ bOut.ok => C6_ValidName(bOut.val)

(***************************************************************************)
(* Claims about the normalizer and risk scorer (SpecTransform)             *)
(***************************************************************************)
Produced == tpc = "done" /\ tOut.ok
OutRows == 1..Len(tOut.rows)
\* the raw row an output row was derived from
RawOf(k) == tIn.rows[tOut.index[k]]

C7_Indicators(r) ==
    {c \in {"family_history_std", "treatment_std", "mental_health_consequence_std",
            "phys_health_consequence_std"} : r[c] = Str(sYes)}
    \cup {c \in {"work_interfere_std"} : r[c] \in {Str(sOften), Str(sSometimes)}}

\* C7: the risk_score of every record transform_survey_df produces is the
\* number of the five indicators that hold of the record's normalized
\* fields, an integer in 0..5.
C7_RiskScoreCountsIndicators ==
    Produced =>
        \A k \in OutRows :
            /\ tOut.rows[k]["risk_score"] = IntVal(Cardinality(C7_Indicators(tOut.rows[k])))
            /\ tOut.rows[k]["risk_score"].n \in 0..5

C7_Witness ==
    /\ Produced
    /\ \E k \in OutRows :
        /\ tOut.rows[k]["risk_score"] = IntVal(5)
        /\ Cardinality(C7_Indicators(tOut.rows[k])) = 5

\* C8: needs_follow_up is 1 exactly when risk_score >= 2 and the normalized
\* treatment value is not yes; no record with treatment = yes is flagged.
C8_FollowUpIffRiskAndUntreated ==
    Produced =>
        \A k \in OutRows :
            LET r == tOut.rows[k]
            IN  /\ r["needs_follow_up"] \in {IntVal(0), IntVal(1)}
                /\ r["needs_follow_up"] = IntVal(1)
                     <=> (r["risk_score"].n >= 2 /\ r["treatment_std"] # Str(sYes))
                /\ r["treatment_std"] = Str(sYes) => r["needs_follow_up"] = IntVal(0)

C8_Witness ==
    /\ Produced
    /\ \E k \in OutRows :
        /\ tOut.rows[k]["needs_follow_up"] = IntVal(1)
        /\ tOut.rows[k]["risk_score"].n >= 2
        /\ tOut.rows[k]["treatment_std"] # Str(sYes)

C9_Four == {Str(sYes), Str(sNo), Str(sMaybe), Str(sUnknown)}

\* what the lexicon gives a value that is not missing
C9_ByLexicon(v) ==
    LET s == Lower(Strip(ToStr(v)))
    IN  CASE s \in YesTokens -> Str(sYes)
          [] s \in NoTokens -> Str(sNo)
          [] s \in MaybeTokens -> Str(sMaybe)
          [] OTHER -> Str(sUnknown)

C10_Groups == {Str(sChild), Str(sYoungAdult), Str(sAdult), Str(sSenior), Str(sUnknown)}

\* an integer age, as a number or as its digits
C10_IsInteger(v) == v.t = "int" \/ (v.t = "str" /\ IsDigits(v.s))
C10_Integer(v) == IF v.t = "int" THEN v.n ELSE DigitsValue(v.s)

\* a numeric age: a number, or text of digits with at most one decimal point
C10_IsNumeric(v) ==
    \/ v.t \in {"int", "float", "inf"}
    \/ /\ v.t = "str"
       /\ \E i \in 1..Len(v.s) : InAlphabet(DigitSeq, v.s[i])
       /\ \A i \in 1..Len(v.s) : InAlphabet(DigitSeq, v.s[i]) \/ v.s[i] = "."
       /\ Cardinality(Positions(v.s, {"."})) <= 1

C10_GroupOfInteger(a) ==
    IF a < 18 THEN Str(sChild)
    ELSE IF a <= 29 THEN Str(sYoungAdult)
    ELSE IF a <= 59 THEN Str(sAdult)
    ELSE Str(sSenior)

C10_Count(g) ==
    Cardinality({k \in OutRows :
        "age_group" \in DOMAIN tOut.rows[k] /\ tOut.rows[k]["age_group"] = Str(g)})

\* the 3-row input with ages 15, 45 and "N/A"
C10_IsExample ==
    /\ "age" \in tIn.cols
    /\ Len(tIn.rows) = 3
    /\ {tIn.rows[i]["age"] : i \in 1..3} = {IntVal(15), IntVal(45), Str(<<"N", "/", "A">>)}

C10_ExampleCounts ==
    C10_IsExample =>
        /\ Len(tOut.rows) = 3
        /\ C10_Count(sChild) = 1 /\ C10_Count(sAdult) = 1 /\ C10_Count(sUnknown) = 1

\* C10 as stated: every record has exactly one age_group, by the integer
\* thresholds, unknown iff the raw age is missing or non-numeric.
C10_EveryRecordOneAgeGroup ==
    Produced =>
        /\ \A k \in OutRows :
            /\ "age_group" \in DOMAIN tOut.rows[k]
            /\ tOut.rows[k]["age_group"] \in C10_Groups
            /\ ("age" \in tIn.cols /\ C10_IsInteger(RawOf(k)["age"])) =>
                   tOut.rows[k]["age_group"] = C10_GroupOfInteger(C10_Integer(RawOf(k)["age"]))
            /\ tOut.rows[k]["age_group"] = Str(sUnknown)
                 <=> ("age" \notin tIn.cols \/ IsNa(RawOf(k)["age"])
                      \/ ~C10_IsNumeric(RawOf(k)["age"]))
        /\ C10_ExampleCounts

\* C10 as amended: every record of a raw table that has an age column has
\* exactly one age_group, by the integer thresholds, unknown iff the raw age
\* is missing, non-numeric or infinite.
C10_OneAgeGroupWhenAgeColumn ==
    (Produced /\ "age" \in tIn.cols) =>
        /\ \A k \in OutRows :
            /\ "age_group" \in DOMAIN tOut.rows[k]
            /\ tOut.rows[k]["age_group"] \in C10_Groups
            /\ C10_IsInteger(RawOf(k)["age"]) =>
                   tOut.rows[k]["age_group"] = C10_GroupOfInteger(C10_Integer(RawOf(k)["age"]))
            /\ tOut.rows[k]["age_group"] = Str(sUnknown)
                 <=> (IsNa(RawOf(k)["age"]) \/ ~C10_IsNumeric(RawOf(k)["age"])
                      \/ RawOf(k)["age"] = Inf)
        /\ C10_ExampleCounts

C10_Witness ==
    /\ Produced
    /\ C10_IsExample
    /\ C10_Count(sChild) = 1 /\ C10_Count(sAdult) = 1 /\ C10_Count(sUnknown) = 1

(***************************************************************************)
(* Claims about the company-size bucket, the work-interference value and   *)
(* the free-text fields (SpecTransform)                                    *)
(***************************************************************************)
C11_Digits(s) == SelectSeq(s, LAMBDA c : InAlphabet(DigitSeq, c))

C11_BucketOf(n) ==
    IF n <= 5 THEN <<"1", "-", "5">>
    ELSE IF n <= 25 THEN <<"6", "-", "2", "5">>
    ELSE IF n <= 100 THEN <<"2", "6", "-", "1", "0", "0">>
    ELSE IF n <= 500 THEN <<"1", "0", "1", "-", "5", "0", "0">>
    ELSE <<"5", "0", "0", "+">>

\* C11: the company-size bucket of a record is its raw text, character for
\* character, when the text contains - or + or contains no digit; otherwise
\* it is the bucket (1-5, 6-25, 26-100, 101-500, 500+) of the number the
\* digits of the text form.
C11_VerbatimOrBucketed ==
    (Produced /\ "no_employees" \in tIn.cols) =>
        \A k \in OutRows :
            LET raw == RawOf(k)["no_employees"]
                b   == tOut.rows[k]["no_employees_bucket"]
            IN  raw.t = "str" =>
                    IF Positions(raw.s, {"-", "+"}) # {} \/ C11_Digits(raw.s) = <<>>
                    THEN b = Str(raw.s)
                    ELSE b = Str(C11_BucketOf(DigitsValue(C11_Digits(raw.s))))

C12_Five == {Str(sNever), Str(sRarely), Str(sSometimes), Str(sOften), Str(sUnknown)}

\* C12: the work_interfere_std of every record produced from a raw table
\* that has a work_interfere column is one of never, rarely, sometimes,
\* often, unknown, whatever the raw value was.
C12_WorkInterfereInFive ==
    (Produced /\ "work_interfere" \in tIn.cols) =>
        \A k \in OutRows : tOut.rows[k]["work_interfere_std"] \in C12_Five

\* C13: the canonical value of country, state and comments is the trimmed
\* raw text, except that nan, none, na and n/a, in any letter case, become
\* null.
C13_TextTrimmedOrNull ==
    Produced =>
        \A k \in OutRows : \A c \in TextCols \cap tIn.cols :
            LET raw == RawOf(k)[c]
            IN  raw.t = "str" =>
                    tOut.rows[k][c] =
                        IF Lower(Strip(raw.s)) \in TextSentinels THEN None
                        ELSE Str(Strip(raw.s))

(***************************************************************************)
(* Claims about the whole of transform_survey_df (SpecTransform)           *)
(***************************************************************************)
\* C14: transform_survey_df completes without raising for every raw table,
\* whatever its fields hold and whichever survey columns it lacks.
C14_NeverRaises == tpc \in {"done", "again"} => tOut.ok

C15_NoEqualRows(rows) ==
    \A i \in 1..Len(rows) : \A j \in 1..Len(rows) : i # j => ~RowEq(rows[i], rows[j])

\* C15: the table transform_survey_df returns has no two equal rows, and
\* transform_survey_df applied to that table returns as many rows.
C15_DedupIdempotent ==
    /\ (tpc \in {"done", "again"} /\ tOut.ok) => C15_NoEqualRows(tOut.rows)
    /\ (tpc = "again" /\ tOut.ok) => Len(tOut.rows) = Len(tPrev.rows)

(***************************************************************************)
(* Claims about calcular_metricas (SpecMetrics)                            *)
(***************************************************************************)
\* C16: calcular_metricas of the rows of a table in another order returns
\* the same resultados: every scalar and every distribution table, rows in
\* the same order, also when two categories have equal counts.
C16_RowOrderInvariant == gpc = "redone" => gOut = gPrev

Computed == gpc \in {"done", "redone"}

C17_Total(t) == SumSeq([k \in 1..Len(t) |-> t[k].quantidade])

\* C17: in every distribution table the records whose category is missing
\* are counted under a row of their own, and the counts of the table sum to
\* total_respostas.
C17_MissingCategoriesCounted ==
    Computed =>
        \A name \in DOMAIN gOut.tabelas :
            LET t == gOut.tabelas[name]
                nulls == NullCount(gIn, TableColumn[name])
            IN  /\ C17_Total(t) = gOut.total_respostas.num
                /\ C17_Total(t) = Len(gIn.rows)
                /\ nulls > 0 =>
                     \E k \in 1..Len(t) : IsNa(t[k].categoria) /\ t[k].quantidade = nulls
                /\ nulls = 0 => \A k \in 1..Len(t) : ~IsNa(t[k].categoria)

C17_Witness ==
    /\ gpc = "done"
    /\ Len(gIn.rows) = 3
    /\ DOMAIN gOut.tabelas = DOMAIN TableColumn
    /\ \E k \in 1..Len(gOut.tabelas["genero"]) :
        /\ IsNa(gOut.tabelas["genero"][k].categoria)
        /\ gOut.tabelas["genero"][k].quantidade = 2

\* the rows of the missing-percentage table for column c
C18_RowsOf(c) == {k \in 1..Len(gOut.faltantes) : gOut.faltantes[k].coluna = c}

C18_IsOne(x) == x.some /\ x.den > 0 /\ x.num = x.den
C18_IsZero(x) == x.some /\ x.den > 0 /\ x.num = 0
C18_IsNaN(x) == x.some /\ x.den = 0 /\ x.num = 0

C18_OneRowPerColumn ==
    /\ Len(gOut.faltantes) = Cardinality(gIn.cols)
    /\ \A c \in gIn.cols : Cardinality(C18_RowsOf(c)) = 1

C18_Percent(c) == gOut.faltantes[CHOOSE k \in C18_RowsOf(c) : TRUE].percentual_faltante

\* C18 as stated: the missing-percentage table has one row per column, with
\* percent_missing the number of nulls of the column over the number of
\* records: 1.0 for a column that is all null, 0.0 for one with no null.
C18_PercentMissingOfEveryTable ==
    Computed =>
        /\ C18_OneRowPerColumn
        /\ \A c \in gIn.cols :
            /\ C18_Percent(c).num * Len(gIn.rows) = NullCount(gIn, c) * C18_Percent(c).den
            /\ NullCount(gIn, c) = Len(gIn.rows) => C18_IsOne(C18_Percent(c))
            /\ NullCount(gIn, c) = 0 => C18_IsZero(C18_Percent(c))

\* C18 as amended: the missing-percentage table has one row per column; for
\* a table that has records, percent_missing is the number of nulls of the
\* column over the number of records (1.0 when all are null, 0.0 when none
\* is); for a table without records it is NaN.
C18_PercentMissingOfNonEmptyTable ==
    Computed =>
        /\ C18_OneRowPerColumn
        /\ \A c \in gIn.cols :
            IF Len(gIn.rows) > 0
            THEN /\ C18_Percent(c).some
                 /\ C18_Percent(c).den > 0
                 /\ C18_Percent(c).num * Len(gIn.rows)
                      = NullCount(gIn, c) * C18_Percent(c).den
                 /\ NullCount(gIn, c) = Len(gIn.rows) => C18_IsOne(C18_Percent(c))
                 /\ NullCount(gIn, c) = 0 => C18_IsZero(C18_Percent(c))
            ELSE C18_IsNaN(C18_Percent(c))

C18_Witness ==
    /\ gpc = "done"
    /\ Len(gIn.rows) = 2
    /\ gIn.cols = MetricCols
    /\ C18_IsOne(C18_Percent("comments"))
    /\ C18_IsZero(C18_Percent("risk_score"))
    /\ C18_Percent("age").num = 1 /\ C18_Percent("age").den = 2

=============================================================================
